---- MODULE Spec2Model ----
(***************************************************************************)
(* Model of the review reconciliation and notification pipeline of        *)
(* main.go: the state file reviews.csv, one run of main (parse the rating *)
(* range, read the state file, fetch, loop over the fetched reviews with  *)
(* one sendToWebhook call per candidate, save the state file), and a      *)
(* sequence of such runs started by cron.                                  *)
(*                                                                         *)
(* Strings the code works on character by character (the command line     *)
(* argument, the review text, the decimal rating) are sequences of        *)
(* one-character strings.  Review ids are opaque strings.  The state file *)
(* is a header flag and a function from review id to CSV row: the order   *)
(* of the rows is left out because saveReviews writes them in map order   *)
(* and readExistingReviews keys them by id.                                *)
(***************************************************************************)
EXTENDS Integers, Sequences, FiniteSets, TLC

VARIABLES
    disk,             \* the state file reviewsCSV
    pc,               \* position of the process in main, "idle" between runs
    testMode,         \* testMode of the current run
    ratingRange,      \* *RatingRange of the current run, Nil when absent
    existingReviews,  \* map[string]Review of the current run
    loaded,           \* existingReviews as readExistingReviews returned it
    fetched,          \* reviews.Reviews of the current run
    idx,              \* position of the range loop in fetched (1-based)
    newReviews,       \* newReviews of the current run
    log,              \* one entry per loop iteration of the current run
    lastExit,         \* how the last run ended
    runs,             \* number of runs started
    rerun,            \* the current run has the argument and fetch of the last
    prevExit,         \* when rerun: how the run before this one ended
    prevAttempted,    \* when rerun: ids sendToWebhook was called for in it
    prevDelivered,    \* when rerun: ids sendToWebhook succeeded for in it
    call              \* the last call of sendToWebhook made on its own

vars == <<disk, pc, testMode, ratingRange, existingReviews, loaded, fetched,
          idx, newReviews, log, lastExit, runs, rerun, prevExit,
          prevAttempted, prevDelivered, call>>

----------------------------------------------------------------------------
(* Bounds *)

\* reviews the platform holds: ids in use and length of a fetched list
MaxReviews == 2
\* runs cron starts
MaxRuns == 2

(* Program constants *)

MinRating == 1
MaxRating == 5
StatusOK == 200
PacingSeconds == 2

\* a nil *RatingRange
NilRange == [isNil |-> TRUE]

\* a nil *DeviceMetadata
NilDevice == "<nil>"

----------------------------------------------------------------------------
(* Input domains *)

IdNames == <<"r1", "r2", "r3", "r4">>

Ids == {IdNames[k] : k \in 1..MaxReviews}

Digits == <<"0", "1", "2", "3", "4", "5", "6", "7", "8", "9">>

\* the white space strings.TrimSpace removes: the six of ASCII, and the
\* other characters unicode.IsSpace holds.  A character a string here cannot
\* spell is named by its code point.
Spaces ==
    {" ", "\t", "\n", "\r", "\f", "U+000B",
     "U+0085", "U+00A0", "U+1680",
     "U+2000", "U+2001", "U+2002", "U+2003", "U+2004", "U+2005", "U+2006",
     "U+2007", "U+2008", "U+2009", "U+200A",
     "U+2028", "U+2029", "U+202F", "U+205F", "U+3000"}

\* os.Args[1:] of a run: absent, well formed, and one of each malformed kind
Args == { <<>>,
          << <<"4", "-", "5">> >>,
          << <<"2", "-", "3">> >>,
          << <<"5">> >>,
          << <<"a", "-", "3">> >>,
          << <<"0", "-", "3">> >>,
          << <<"4", "-", "2">> >>,
          << <<"3", "-", "9">> >>,
          << <<"1", "-", "2", "-", "3">> >> }

\* outcomes of http.Post: a transport error or a response status
NetOutcomes ==
    { [err |-> TRUE, StatusCode |-> 0] }
        \cup { [err |-> FALSE, StatusCode |-> c] : c \in {200, 201, 500} }

\* a review as the platform returns it: three contents, and one without a
\* comment payload
RawReview(id, r) ==
    [ReviewId |-> id, AuthorName |-> "ann", Comments |-> 1, StarRating |-> r,
     Text |-> IF r = 5 THEN <<"U+000B", " ", "g", "!", " ", "U+00A0">>
              ELSE IF r = 4 THEN <<"o", "k">>
              ELSE <<"b", "\r", "\n", "d", "\n">>,
     DeviceMetadata |-> IF r = 5 THEN NilDevice ELSE "pixel",
     LastModified |-> IF r = 5 THEN 1700000000 ELSE 1600000000]

NoComment(id) ==
    [ReviewId |-> id, AuthorName |-> "ann", Comments |-> 0, StarRating |-> 0,
     Text |-> <<>>, DeviceMetadata |-> NilDevice, LastModified |-> 0]

\* the star ratings the platform may hold for a review id
RatingsOf(id) ==
    IF id = "r1" THEN {5, 2} ELSE IF id = "r2" THEN {2} ELSE {4}

RawPool == {r \in {RawReview(id, n) : id \in Ids, n \in {2, 4, 5}} :
                r.StarRating \in RatingsOf(r.ReviewId)}
               \cup {NoComment("r2")}

RECURSIVE ListsOf(_)
ListsOf(n) ==
    IF n = 0 THEN {<<>>}
    ELSE LET shorter == ListsOf(n - 1) IN
         shorter \cup
         {Append(l, x) : l \in {s \in shorter : Len(s) = n - 1},
                         x \in RawPool}

\* the platform assigns one id per review: a fetched list has distinct ids
FetchLists ==
    {l \in ListsOf(MaxReviews) :
        \A a, b \in 1..Len(l) : a # b => l[a].ReviewId # l[b].ReviewId}

----------------------------------------------------------------------------
(* Conversions *)

IsDigit(c) == \E d \in 1..10 : Digits[d] = c

DigitVal(c) == (CHOOSE d \in 1..10 : Digits[d] = c) - 1

RECURSIVE DecVal(_)
DecVal(s) ==
    IF s = <<>> THEN 0
    ELSE 10 * DecVal(SubSeq(s, 1, Len(s) - 1)) + DigitVal(s[Len(s)])

\* strconv.Atoi: optional sign, then one or more decimal digits
Atoi(s) ==
    LET signed == s # <<>> /\ s[1] \in {"+", "-"}
        body   == IF signed THEN Tail(s) ELSE s
    IN  IF body = <<>> \/ \E k \in 1..Len(body) : ~IsDigit(body[k])
        THEN [err |-> TRUE, val |-> 0]
        ELSE [err |-> FALSE,
              val |-> IF signed /\ s[1] = "-" THEN 0 - DecVal(body)
                      ELSE DecVal(body)]

RECURSIVE ItoaNat(_)
ItoaNat(n) ==
    IF n < 10 THEN <<Digits[n + 1]>>
    ELSE Append(ItoaNat(n \div 10), Digits[(n % 10) + 1])

\* strconv.Itoa
Itoa(n) == IF n < 0 THEN <<"-">> \o ItoaNat(0 - n) ELSE ItoaNat(n)

\* strconv.FormatBool
FormatBool(b) == IF b THEN "true" ELSE "false"

\* strconv.ParseBool, the error dropped as readExistingReviews drops it
ParseBool(s) == s \in {"1", "t", "T", "TRUE", "true", "True"}

\* time.Time{}: the zero time, January 1 of year 1
ZeroTime == [zero |-> TRUE, unix |-> 0]

\* time.Unix(sec, 0)
Unix(sec) == [zero |-> FALSE, unix |-> sec]

\* instants the model formats, with their RFC 3339 text (UTC)
TimeTable ==
    { <<ZeroTime, "0001-01-01T00:00:00Z">>,
      <<Unix(0), "1970-01-01T00:00:00Z">>,
      <<Unix(1600000000), "2020-09-13T12:26:40Z">>,
      <<Unix(1700000000), "2023-11-14T22:13:20Z">> }

\* time.Time.Format(time.RFC3339)
FormatTime(t) == (CHOOSE e \in TimeTable : e[1] = t)[2]

\* time.Parse(time.RFC3339, s), the error dropped: the zero time on error
ParseTime(s) ==
    IF \E e \in TimeTable : e[2] = s
    THEN (CHOOSE e \in TimeTable : e[2] = s)[1]
    ELSE ZeroTime

RECURSIVE TrimLeft(_)
TrimLeft(s) ==
    IF s # <<>> /\ s[1] \in Spaces THEN TrimLeft(Tail(s)) ELSE s

RECURSIVE TrimRight(_)
TrimRight(s) ==
    IF s # <<>> /\ s[Len(s)] \in Spaces
    THEN TrimRight(SubSeq(s, 1, Len(s) - 1)) ELSE s

\* cleanText: strings.TrimSpace
cleanText(text) == TrimRight(TrimLeft(text))

\* strings.Split(s, sep) for a one-character separator
RECURSIVE Split(_, _)
Split(s, sep) ==
    IF \E k \in 1..Len(s) : s[k] = sep
    THEN LET k == CHOOSE j \in 1..Len(s) :
                      s[j] = sep /\ \A m \in 1..(j - 1) : s[m] # sep
         IN  <<SubSeq(s, 1, k - 1)>> \o Split(SubSeq(s, k + 1, Len(s)), sep)
    ELSE <<s>>

\* parseRatingRange without the test of start against end
parseRatingRangeUnordered(args) ==
    IF Len(args) < 1 THEN [err |-> FALSE, range |-> NilRange]
    ELSE LET parts == Split(args[1], "-") IN
         IF Len(parts) # 2 THEN [err |-> TRUE, range |-> NilRange]
         ELSE LET start == Atoi(parts[1])
                  end   == Atoi(parts[2])
              IN  IF start.err THEN [err |-> TRUE, range |-> NilRange]
                  ELSE IF end.err THEN [err |-> TRUE, range |-> NilRange]
                  ELSE IF \/ start.val < MinRating \/ start.val > MaxRating
                          \/ end.val < MinRating \/ end.val > MaxRating
                       THEN [err |-> TRUE, range |-> NilRange]
                  ELSE [err |-> FALSE,
                        range |-> [isNil |-> FALSE, Start |-> start.val,
                                  End |-> end.val]]

\* parseRatingRange, args being os.Args[1:]
parseRatingRange(args) ==
    IF Len(args) < 1 THEN [err |-> FALSE, range |-> NilRange]
    ELSE LET parts == Split(args[1], "-") IN
         IF Len(parts) # 2 THEN [err |-> TRUE, range |-> NilRange]
         ELSE LET start == Atoi(parts[1])
                  end   == Atoi(parts[2])
              IN  IF start.err THEN [err |-> TRUE, range |-> NilRange]
                  ELSE IF end.err THEN [err |-> TRUE, range |-> NilRange]
                  ELSE IF \/ start.val < MinRating \/ start.val > MaxRating
                          \/ end.val < MinRating \/ end.val > MaxRating
                       THEN [err |-> TRUE, range |-> NilRange]
                  ELSE IF start.val > end.val
                       THEN [err |-> TRUE, range |-> NilRange]
                  ELSE [err |-> FALSE,
                        range |-> [isNil |-> FALSE, Start |-> start.val,
                                  End |-> end.val]]

----------------------------------------------------------------------------
(* The state file *)

EmptyMap == [k \in {} |-> k]

Put(m, k, v) == [x \in (DOMAIN m) \cup {k} |-> IF x = k THEN v ELSE m[x]]

\* encoding/csv Reader: "\r\n" inside a field is read back as "\n"
RECURSIVE CsvReadField(_)
CsvReadField(s) ==
    IF Len(s) < 2 THEN s
    ELSE IF s[1] = "\r" /\ s[2] = "\n" THEN CsvReadField(Tail(s))
    ELSE <<s[1]>> \o CsvReadField(Tail(s))

\* the record saveReviews writes for a review
FormatRecord(review) ==
    <<review.ReviewID, Itoa(review.Rating), review.Text, review.Author,
      review.Device, FormatTime(review.Date), FormatBool(review.Notified)>>

\* a Review built without its Notified field: the zero value, false
ParseRecordNoNotified(record) ==
    [ReviewID |-> record[1],
     Rating   |-> Atoi(record[2]).val,
     Text     |-> CsvReadField(record[3]),
     Author   |-> record[4],
     Device   |-> record[5],
     Date     |-> ParseTime(record[6]),
     Notified |-> FALSE]

\* the Review readExistingReviews builds from a record
ParseRecord(record) ==
    [ReviewID |-> record[1],
     Rating   |-> Atoi(record[2]).val,
     Text     |-> CsvReadField(record[3]),
     Author   |-> record[4],
     Device   |-> record[5],
     Date     |-> ParseTime(record[6]),
     Notified |-> ParseBool(record[7])]

\* the fields a record of the state file has
RecordFields == 7

\* the state file: absent, or a header line (or none, when empty) and rows.
\* header stands for a first line, whole or cut: it is records[0], which
\* readExistingReviews does not look at.  A row is a tuple of RecordFields
\* fields, or of fewer when the file was cut inside the row.
NoFile == [exists |-> FALSE, header |-> FALSE, rows |-> EmptyMap]

EmptyFile == [exists |-> TRUE, header |-> FALSE, rows |-> EmptyMap]

\* readExistingReviews: "ok" with the map, "panic" when records[1:] is
\* taken of an empty record list, "error" when reader.ReadAll meets a row
\* that has not the fields of the first line
readExistingReviews(file) ==
    IF ~file.exists THEN [result |-> "ok", reviews |-> EmptyMap]
    ELSE IF ~file.header THEN [result |-> "panic", reviews |-> EmptyMap]
    ELSE IF \E id \in DOMAIN file.rows : Len(file.rows[id]) # RecordFields
    THEN [result |-> "error", reviews |-> EmptyMap]
    ELSE [result |-> "ok",
          reviews |-> [id \in DOMAIN file.rows |-> ParseRecord(file.rows[id])]]

\* allReviews rebuilt from the fetch: reviews not fetched are dropped
allReviewsFetchedOnly(existing) ==
    [id \in {x \in DOMAIN existing :
                 \E k \in 1..Len(fetched) : fetched[k].ReviewId = x}
        |-> existing[id]]

\* main, lines 336-339: allReviews holds every review of the map
allReviews(existing) == existing

\* saveReviews: the file it leaves when os.Create and every write succeed
saveReviews(reviews) ==
    [exists |-> TRUE, header |-> TRUE,
     rows |-> [id \in DOMAIN reviews |-> FormatRecord(reviews[id])]]

\* a state file an earlier run left: review id notified or not
StoredReview(id, r, notified) ==
    [ReviewID |-> id, Rating |-> r, Text |-> <<"o", "l", "d">>,
     Author |-> "bob", Device |-> "Unknown", Date |-> Unix(0),
     Notified |-> notified]

InitFiles ==
    { NoFile, EmptyFile,
      saveReviews(Put(EmptyMap, "r2", StoredReview("r2", 2, TRUE))),
      saveReviews(Put(Put(EmptyMap, "r1", StoredReview("r1", 5, FALSE)),
                      "r2", StoredReview("r2", 4, TRUE))) }

----------------------------------------------------------------------------
(* The rating filter, the candidate test and the notifier *)

\* a filter whose lower bound is exclusive
RatingMatchesExclusive(rating, range) ==
    ~(~range.isNil /\ (rating <= range.Start \/ rating > range.End))

\* a filter that is never applied
RatingMatchesAlways(rating, range) == TRUE

\* main, line 304: the review is kept unless a range is set and excludes it
RatingMatches(rating, range) ==
    ~(~range.isNil /\ (rating < range.Start \/ rating > range.End))

\* a candidate test that does not look at the stored review
IsCandidateAlways(existing, id) == TRUE

\* a candidate test that only asks whether the id is stored
IsCandidateAbsentOnly(existing, id) == ~(id \in DOMAIN existing)

\* main, line 313: !exists || !existingReview.Notified
IsCandidate(existing, id) ==
    ~(id \in DOMAIN existing) \/ ~existing[id].Notified

\* a notifier that does not look at testMode
sendToWebhookNoTestMode(mode, net) ==
    IF net.err
    THEN [err |-> TRUE, posts |-> 1, slept |-> 0]
    ELSE IF net.StatusCode # StatusOK
    THEN [err |-> TRUE, posts |-> 1, slept |-> 0]
    ELSE [err |-> FALSE, posts |-> 1, slept |-> PacingSeconds]

\* sendToWebhook sending the request a second time when the first failed
sendToWebhookRetrying(mode, net) ==
    IF mode
    THEN [err |-> FALSE, posts |-> 0, slept |-> PacingSeconds]
    ELSE IF net.err
    THEN [err |-> TRUE, posts |-> 2, slept |-> 0]
    ELSE IF net.StatusCode # StatusOK
    THEN [err |-> TRUE, posts |-> 2, slept |-> 0]
    ELSE [err |-> FALSE, posts |-> 1, slept |-> PacingSeconds]

\* sendToWebhook taking every 2xx status for a success
sendToWebhookAny2xx(mode, net) ==
    IF mode
    THEN [err |-> FALSE, posts |-> 0, slept |-> PacingSeconds]
    ELSE IF net.err
    THEN [err |-> TRUE, posts |-> 1, slept |-> 0]
    ELSE IF net.StatusCode < 200 \/ net.StatusCode > 299
    THEN [err |-> TRUE, posts |-> 1, slept |-> 0]
    ELSE [err |-> FALSE, posts |-> 1, slept |-> PacingSeconds]

\* sendToWebhook reporting a dry run as a delivery that failed
sendToWebhookDryFails(mode, net) ==
    IF mode
    THEN [err |-> TRUE, posts |-> 0, slept |-> PacingSeconds]
    ELSE IF net.err
    THEN [err |-> TRUE, posts |-> 1, slept |-> 0]
    ELSE IF net.StatusCode # StatusOK
    THEN [err |-> TRUE, posts |-> 1, slept |-> 0]
    ELSE [err |-> FALSE, posts |-> 1, slept |-> PacingSeconds]

\* sendToWebhook: whether it returns an error, whether it made the POST,
\* and the seconds it slept before returning
sendToWebhook(mode, net) ==
    IF mode
    THEN [err |-> FALSE, posts |-> 0, slept |-> PacingSeconds]
    ELSE IF net.err
    THEN [err |-> TRUE, posts |-> 1, slept |-> 0]
    ELSE IF net.StatusCode # StatusOK
    THEN [err |-> TRUE, posts |-> 1, slept |-> 0]
    ELSE [err |-> FALSE, posts |-> 1, slept |-> PacingSeconds]

\* main, lines 308-322: the Review built from a fetched review
NewReview(review) ==
    [ReviewID |-> review.ReviewId,
     Rating   |-> review.StarRating,
     Text     |-> cleanText(review.Text),
     Author   |-> review.AuthorName,
     Device   |-> IF review.DeviceMetadata # NilDevice
                  THEN review.DeviceMetadata ELSE "Unknown",
     Date     |-> Unix(review.LastModified),
     Notified |-> FALSE]

\* the map when the error of sendToWebhook does not skip the update
DeliveryUpdateIgnoringErr(existing, newReview, err) ==
    Put(existing, newReview.ReviewID, [newReview EXCEPT !.Notified = TRUE])

\* the map when a failed delivery stores the review as not yet notified
DeliveryUpdateStoringFailed(existing, newReview, err) ==
    IF err THEN Put(existing, newReview.ReviewID, newReview)
    ELSE Put(existing, newReview.ReviewID, [newReview EXCEPT !.Notified = TRUE])

\* main, lines 324-331: the map after the delivery attempt
DeliveryUpdate(existing, newReview, err) ==
    IF err THEN existing
    ELSE Put(existing, newReview.ReviewID, [newReview EXCEPT !.Notified = TRUE])

\* newReviews when the error of sendToWebhook does not skip the append
DeliveryAppendIgnoringErr(list, newReview, err) ==
    Append(list, [newReview EXCEPT !.Notified = TRUE])

\* main, lines 324-330: newReviews after the delivery attempt
DeliveryAppend(list, newReview, err) ==
    IF err THEN list
    ELSE Append(list, [newReview EXCEPT !.Notified = TRUE])

----------------------------------------------------------------------------
(* One run of main, and the runs cron starts one after the other *)

\* what the loop leaves behind for one fetched review
LogEntry(pos, id, passed, candidate, sent, res) ==
    [pos |-> pos, id |-> id, passed |-> passed, candidate |-> candidate,
     sent |-> sent, err |-> res.err, posts |-> res.posts, slept |-> res.slept]

NoSend == [err |-> FALSE, posts |-> 0, slept |-> 0]

Attempted(l) == {l[k].id : k \in {j \in 1..Len(l) : l[j].sent}}

Delivered(l) == {l[k].id : k \in {j \in 1..Len(l) : l[j].sent /\ ~l[j].err}}

\* no call of sendToWebhook made on its own yet
NoCall == [made |-> FALSE]

\* the range loop of main goes on while there are fetched reviews left
LoopPc(next, list) == IF next > Len(list) THEN "save" ELSE "loop"

Init ==
    /\ disk \in InitFiles
    /\ pc = "idle"
    /\ testMode = TRUE
    /\ ratingRange = NilRange
    /\ existingReviews = EmptyMap
    /\ loaded = EmptyMap
    /\ fetched = <<>>
    /\ idx = 1
    /\ newReviews = <<>>
    /\ log = <<>>
    /\ lastExit = "none"
    /\ runs = 0
    /\ rerun = FALSE
    /\ prevExit = "none"
    /\ prevAttempted = {}
    /\ prevDelivered = {}
    /\ call = NoCall

\* main, lines 236-282: configuration, parseRatingRange, the credentials.
\* again: the last run got to its end or was killed, cron starts this one
\* with the same argument, and the platform will answer as it did then.
Start(args, mode, credsOk, again) ==
    /\ pc = "idle"
    /\ runs < MaxRuns
    /\ LET parsed == parseRatingRange(args) IN
       /\ again => /\ lastExit \in {"ok", "killed"}
                    /\ ~parsed.err /\ parsed.range = ratingRange
       /\ ratingRange' = parsed.range
       /\ IF parsed.err
          THEN pc' = "idle" /\ lastExit' = "bad_range"
          ELSE IF ~credsOk
          THEN pc' = "idle" /\ lastExit' = "fatal"
          ELSE pc' = "read" /\ lastExit' = "running"
    /\ runs' = runs + 1
    /\ rerun' = again
    /\ testMode' = mode
    /\ fetched' = IF again THEN fetched ELSE <<>>
    /\ prevExit' = IF again THEN lastExit ELSE "none"
    /\ prevAttempted' = IF again THEN Attempted(log) ELSE {}
    /\ prevDelivered' = IF again THEN Delivered(log) ELSE {}
    /\ existingReviews' = EmptyMap
    /\ loaded' = EmptyMap
    /\ idx' = 1
    /\ newReviews' = <<>>
    /\ log' = <<>>
    /\ UNCHANGED <<disk, call>>

\* main, lines 284-289: readExistingReviews; openOk is os.Open succeeding
ReadExisting(openOk) ==
    /\ pc = "read"
    /\ LET r == readExistingReviews(disk) IN
       IF (disk.exists /\ ~openOk) \/ r.result = "error"
       THEN /\ pc' = "idle" /\ lastExit' = "fatal"
            /\ UNCHANGED <<existingReviews, loaded>>
       ELSE IF r.result = "panic"
       THEN /\ pc' = "idle" /\ lastExit' = "panic"
            /\ UNCHANGED <<existingReviews, loaded>>
       ELSE /\ pc' = "fetch"
            /\ existingReviews' = r.reviews
            /\ loaded' = r.reviews
            /\ UNCHANGED lastExit
    /\ UNCHANGED <<disk, testMode, ratingRange, fetched, idx, newReviews, log,
                   runs, rerun, prevExit, prevAttempted, prevDelivered, call>>

\* a failed fetch taken for an empty answer: the run goes on to saveReviews
FetchFailsAsEmpty ==
    /\ pc = "fetch"
    /\ pc' = "save"
    /\ lastExit' = "fetch_failed"
    /\ UNCHANGED <<disk, testMode, ratingRange, existingReviews, loaded,
                   fetched, idx, newReviews, log, runs, rerun, prevExit,
                   prevAttempted, prevDelivered, call>>

\* main, lines 291-298: service.Reviews.List(packageName).Do()
FetchFails ==
    /\ pc = "fetch"
    /\ pc' = "idle"
    /\ lastExit' = "fetch_failed"
    /\ UNCHANGED <<disk, testMode, ratingRange, existingReviews, loaded,
                   fetched, idx, newReviews, log, runs, rerun, prevExit,
                   prevAttempted, prevDelivered, call>>

Fetch(list) ==
    /\ pc = "fetch"
    /\ rerun => list = fetched
    /\ fetched' = list
    /\ idx' = 1
    /\ pc' = LoopPc(1, list)
    /\ UNCHANGED <<disk, testMode, ratingRange, existingReviews, loaded,
                   newReviews, log, lastExit, runs, rerun, prevExit,
                   prevAttempted, prevDelivered, call>>

\* main, lines 302-333: one iteration of the range loop; net is what
\* http.Post meets if sendToWebhook calls it
Iteration(net) ==
    /\ pc = "loop"
    /\ idx <= Len(fetched)
    /\ LET review == fetched[idx] IN
       IF review.Comments = 0
       THEN \* review.Comments[0]: index out of range
            /\ pc' = "idle" /\ lastExit' = "panic"
            /\ UNCHANGED <<existingReviews, newReviews, log, idx>>
       ELSE /\ idx' = idx + 1
            /\ pc' = LoopPc(idx + 1, fetched)
            /\ UNCHANGED lastExit
            /\ IF ~RatingMatches(review.StarRating, ratingRange)
               THEN /\ log' = Append(log, LogEntry(idx, review.ReviewId,
                                                   FALSE, FALSE, FALSE, NoSend))
                    /\ UNCHANGED <<existingReviews, newReviews>>
               ELSE IF ~IsCandidate(existingReviews, review.ReviewId)
               THEN /\ log' = Append(log, LogEntry(idx, review.ReviewId,
                                                   TRUE, FALSE, FALSE, NoSend))
                    /\ UNCHANGED <<existingReviews, newReviews>>
               ELSE LET newReview == NewReview(review)
                        res == sendToWebhook(testMode, net)
                    IN  /\ log' = Append(log, LogEntry(idx, review.ReviewId,
                                                       TRUE, TRUE, TRUE, res))
                        /\ existingReviews' =
                               DeliveryUpdate(existingReviews, newReview, res.err)
                        /\ newReviews' =
                               DeliveryAppend(newReviews, newReview, res.err)
    /\ UNCHANGED <<testMode, ratingRange, loaded, fetched, runs, rerun,
                   prevExit, prevAttempted, prevDelivered, call>>

\* a loop that rewrites the state file at every iteration
ProcessReviewSaving(net) ==
    /\ Iteration(net)
    /\ disk' = saveReviews(allReviews(existingReviews'))

\* main, lines 302-333: the loop works on the map and leaves the file alone
ProcessReview(net) ==
    /\ Iteration(net)
    /\ UNCHANGED disk

\* main, lines 335-354: saveReviews of every review of the map, the report
Save ==
    /\ pc = "save"
    /\ disk' = saveReviews(allReviews(existingReviews))
    /\ pc' = "idle"
    /\ lastExit' = "ok"
    /\ UNCHANGED <<testMode, ratingRange, existingReviews, loaded, fetched,
                   idx, newReviews, log, runs, rerun, prevExit, prevAttempted,
                   prevDelivered, call>>

\* the process is killed between two steps of main before saveReviews
Kill ==
    /\ pc \in {"read", "fetch", "loop", "save"}
    /\ pc' = "idle"
    /\ lastExit' = "killed"
    /\ UNCHANGED <<disk, testMode, ratingRange, existingReviews, loaded,
                   fetched, idx, newReviews, log, runs, rerun, prevExit,
                   prevAttempted, prevDelivered, call>>

\* what is left of the last field of a row when the file ends inside it
NotifiedCuts(s) ==
    IF s = "true" THEN {"", "t", "tr", "tru"}
    ELSE {"", "f", "fa", "fal", "fals"}

\* what is left of a row when the file ends inside it: its first fields, the
\* last of them cut, or all its fields with the last one cut
RowCuts(row) ==
    {SubSeq(row, 1, k) : k \in 1..(RecordFields - 1)}
        \cup {[row EXCEPT ![RecordFields] = p] :
                  p \in NotifiedCuts(row[RecordFields])}

\* the ways saveReviews can stop short of the whole file after os.Create
\* has truncated it: nothing written, or the first line and some of the
\* rows, the last of them whole or cut (the rows are written in map order)
ShortWrites(reviews) ==
    {[hdr |-> FALSE, kept |-> {}, cut |-> {}]}
        \cup {[hdr |-> TRUE, kept |-> k, cut |-> {}] :
                  k \in (SUBSET (DOMAIN reviews)) \ {DOMAIN reviews}}
        \cup UNION {{[hdr |-> TRUE, kept |-> k,
                      cut |-> {[id |-> c, row |-> r]}] :
                         k \in SUBSET ((DOMAIN reviews) \ {c}),
                         r \in RowCuts(FormatRecord(reviews[c]))} :
                     c \in DOMAIN reviews}

\* the file a short write leaves
PartialFile(reviews, w) ==
    [exists |-> TRUE, header |-> w.hdr,
     rows |-> [id \in w.kept \cup {c.id : c \in w.cut} |->
                  IF id \in w.kept THEN FormatRecord(reviews[id])
                  ELSE (CHOOSE c \in w.cut : c.id = id).row]]

\* the process is killed inside saveReviews, lines 162-169: os.Create has
\* truncated the file, and of the new content there is what the writer has
\* flushed so far
KillSaving(w) ==
    /\ pc = "save"
    /\ disk' = PartialFile(allReviews(existingReviews), w)
    /\ pc' = "idle"
    /\ lastExit' = "killed_saving"
    /\ UNCHANGED <<testMode, ratingRange, existingReviews, loaded, fetched,
                   idx, newReviews, log, runs, rerun, prevExit, prevAttempted,
                   prevDelivered, call>>

\* the process is killed after saveReviews has returned, in the report of
\* main, lines 344-354
KillSaved ==
    /\ pc = "save"
    /\ disk' = saveReviews(allReviews(existingReviews))
    /\ pc' = "idle"
    /\ lastExit' = "killed_saved"
    /\ UNCHANGED <<testMode, ratingRange, existingReviews, loaded, fetched,
                   idx, newReviews, log, runs, rerun, prevExit, prevAttempted,
                   prevDelivered, call>>

\* main, lines 340-342, saveReviews returning an error: os.Create fails and
\* the file is as it was, or os.Create has truncated the file and a Write
\* fails, the file ending where the writer got to; log.Fatalf ends the run
SaveFails(created, w) ==
    /\ pc = "save"
    /\ disk' = IF created
               THEN PartialFile(allReviews(existingReviews), w)
               ELSE disk
    /\ pc' = "idle"
    /\ lastExit' = "save_failed"
    /\ UNCHANGED <<testMode, ratingRange, existingReviews, loaded, fetched,
                   idx, newReviews, log, runs, rerun, prevExit, prevAttempted,
                   prevDelivered, call>>

\* saveReviews, lines 166-169 and 193: the deferred writer.Flush or
\* file.Close fails, its error is dropped and saveReviews returns nil
SaveSilentlyShort(w) ==
    /\ pc = "save"
    /\ disk' = PartialFile(allReviews(existingReviews), w)
    /\ pc' = "idle"
    /\ lastExit' = "ok"
    /\ UNCHANGED <<testMode, ratingRange, existingReviews, loaded, fetched,
                   idx, newReviews, log, runs, rerun, prevExit, prevAttempted,
                   prevDelivered, call>>

Next ==
    \/ \E args \in Args, mode \in BOOLEAN, credsOk \in BOOLEAN,
          again \in BOOLEAN : Start(args, mode, credsOk, again)
    \/ \E openOk \in BOOLEAN : ReadExisting(openOk)
    \/ FetchFails
    \/ \E list \in FetchLists : Fetch(list)
    \/ \E net \in NetOutcomes : ProcessReview(net)
    \/ Save

Spec == Init /\ [][Next]_vars

\* the runs when the process can be killed at any point of a run
NextKill ==
    \/ Next
    \/ Kill
    \/ \E w \in ShortWrites(allReviews(existingReviews)) : KillSaving(w)
    \/ KillSaved

SpecKill == Init /\ [][NextKill]_vars

\* the runs on a file system whose writes can fail
NextFault ==
    \/ Next
    \/ \E created \in BOOLEAN,
          w \in ShortWrites(allReviews(existingReviews)) : SaveFails(created, w)
    \/ \E w \in ShortWrites(allReviews(existingReviews)) : SaveSilentlyShort(w)

SpecFault == Init /\ [][NextFault]_vars

----------------------------------------------------------------------------
(* sendToWebhook on its own: one call, in either mode, with any answer *)

\* the status codes a server can answer with
StatusCodes == 100..599

\* what http.Post can come back with: a transport error or a response
CallOutcomes ==
    { [err |-> TRUE, StatusCode |-> 0] }
        \cup { [err |-> FALSE, StatusCode |-> c] : c \in StatusCodes }

InitNotify == Init /\ disk = NoFile

\* one call of sendToWebhook
Call(mode, net) ==
    /\ call' = [made |-> TRUE, mode |-> mode, net |-> net,
                res |-> sendToWebhook(mode, net)]
    /\ UNCHANGED <<disk, pc, testMode, ratingRange, existingReviews, loaded,
                   fetched, idx, newReviews, log, lastExit, runs, rerun,
                   prevExit, prevAttempted, prevDelivered>>

NextNotify == \E mode \in BOOLEAN, net \in CallOutcomes : Call(mode, net)

SpecNotify == InitNotify /\ [][NextNotify]_vars

----------------------------------------------------------------------------
(* Runs that start with no stored review *)

\* no state file, a file of zero bytes, a file with the header alone
FreshFiles == {NoFile, EmptyFile, saveReviews(EmptyMap)}

\* the state before the first run, as Init, the state file one of FreshFiles
InitFresh ==
    /\ disk \in FreshFiles
    /\ pc = "idle"
    /\ testMode = TRUE
    /\ ratingRange = NilRange
    /\ existingReviews = EmptyMap
    /\ loaded = EmptyMap
    /\ fetched = <<>>
    /\ idx = 1
    /\ newReviews = <<>>
    /\ log = <<>>
    /\ lastExit = "none"
    /\ runs = 0
    /\ rerun = FALSE
    /\ prevExit = "none"
    /\ prevAttempted = {}
    /\ prevDelivered = {}
    /\ call = NoCall

SpecFresh == InitFresh /\ [][Next]_vars

----------------------------------------------------------------------------
(* A dry run first, live runs after it: testMode is set in the source, so
   the runs of one build share it and a rebuilt program runs live *)

NextDry ==
    \/ \E args \in Args, credsOk \in BOOLEAN, again \in BOOLEAN :
          Start(args, ~again, credsOk, again)
    \/ \E openOk \in BOOLEAN : ReadExisting(openOk)
    \/ FetchFails
    \/ \E list \in FetchLists : Fetch(list)
    \/ \E net \in NetOutcomes : ProcessReview(net)
    \/ Save

SpecDry == Init /\ [][NextDry]_vars

----------------------------------------------------------------------------
(* What the claims speak of *)

\* the last run went through saveReviews and returned from main
Finished == pc = "idle" /\ lastExit = "ok"

FetchedIds == {fetched[k].ReviewId : k \in 1..Len(fetched)}

\* the state file holds the id with a notified field that reads as true
PersistedNotified(id) ==
    /\ id \in DOMAIN disk.rows
    /\ Len(disk.rows[id]) = RecordFields
    /\ ParseBool(disk.rows[id][7])

\* the state file holds the id with a notified field that reads as false
PersistedUnnotified(id) ==
    /\ id \in DOMAIN disk.rows
    /\ Len(disk.rows[id]) = RecordFields
    /\ ~ParseBool(disk.rows[id][7])

\* the record of the id in the state file is what the run loaded for it
PersistedAsLoaded(id) ==
    IF id \in DOMAIN loaded
    THEN /\ id \in DOMAIN disk.rows
         /\ Len(disk.rows[id]) = RecordFields
         /\ ParseRecord(disk.rows[id]) = loaded[id]
    ELSE ~(id \in DOMAIN disk.rows)

\* the review was stored with notified = true when the run loaded the file
LoadedNotified(id) == id \in DOMAIN loaded /\ loaded[id].Notified

\* s <= r <= e for the configured range, anything when there is none
InRange(r) ==
    ratingRange.isNil \/ (ratingRange.Start <= r /\ r <= ratingRange.End)

\* this run repeats a run that ended as e: same argument, same fetched list
Repeats(e) == rerun /\ prevExit = e /\ lastExit \in {"running", "ok"}

----------------------------------------------------------------------------
(* C1 *)

\* C1 as stated: a run that repeats a finished run on the same fetched list,
\* from the state that run persisted, calls sendToWebhook for no review.
C1_NoSecondNotification ==
    (Repeats("ok") /\ Finished) => Attempted(log) = {}

\* C1, amended: a run that repeats a finished run on the same fetched list and
\* range, from the state that run persisted, never calls sendToWebhook for a
\* review the first run delivered; when it finishes it has called it for
\* exactly the reviews whose delivery failed in the first run, so for none when
\* every delivery of the first run succeeded.
C1_Idempotence ==
    Repeats("ok") =>
        /\ Attempted(log) \subseteq (prevAttempted \ prevDelivered)
        /\ Finished => Attempted(log) = prevAttempted \ prevDelivered

\* a second run over a list of which the first run delivered a review and
\* failed none: every review is looked at and none is sent
C1_Witness ==
    /\ Repeats("ok") /\ Finished
    /\ prevDelivered # {} /\ prevAttempted = prevDelivered
    /\ Len(log) = Len(fetched) /\ Attempted(log) = {}

(* C2 *)

\* C2: when a run finishes in which sendToWebhook failed for review A and
\* succeeded for review B, in either order, the state file holds B with
\* notified = true, holds for A what the run loaded for A (never notified =
\* true), so A is a candidate of the next run, and the loop has gone through
\* every fetched review.
C2_FailureIsolation ==
    Finished =>
        \A a, b \in 1..Len(log) :
            (log[a].sent /\ log[a].err /\ log[b].sent /\ ~log[b].err) =>
                /\ PersistedNotified(log[b].id)
                /\ ~PersistedNotified(log[a].id)
                /\ PersistedAsLoaded(log[a].id)
                /\ IsCandidate(readExistingReviews(disk).reviews, log[a].id)
                /\ Len(log) = Len(fetched)

\* a finished run whose first delivery failed and whose second succeeded
C2_Witness ==
    /\ Finished
    /\ \E a, b \in 1..Len(log) :
          /\ a < b
          /\ log[a].sent /\ log[a].err /\ log[b].sent /\ ~log[b].err
          /\ PersistedNotified(log[b].id) /\ ~PersistedNotified(log[a].id)

(* C3 *)

\* C3: once the state file holds a review id with notified = true, no step of
\* any run leaves the file holding that id with notified = false.
C3_MonotonicNotified ==
    [][\A id \in Ids : PersistedNotified(id) => ~PersistedUnnotified(id)']_vars

\* a second run has rewritten the file for a review that was stored as
\* notified, was fetched again and passed the filter
C3_Witness ==
    /\ Finished /\ runs >= 2
    /\ \E k \in 1..Len(log) :
          /\ log[k].passed /\ LoadedNotified(log[k].id)
          /\ PersistedNotified(log[k].id)

(* C4 *)

\* C4: after a run that went through saveReviews, every record the run loaded
\* is still in the state file, and those whose id was not fetched are there
\* with every field as loaded.
C4_Retention ==
    Finished =>
        /\ DOMAIN loaded \subseteq DOMAIN disk.rows
        /\ \A id \in (DOMAIN loaded) \ FetchedIds : PersistedAsLoaded(id)

\* a finished run that delivered a review and had loaded another, notified or
\* not, that the platform no longer returned
C4_Witness ==
    /\ Finished /\ newReviews # <<>>
    /\ \E id \in (DOMAIN loaded) \ FetchedIds : PersistedAsLoaded(id)

(* C5 *)

\* C5: a fetched review with rating r passes the rating filter of main iff
\* there is no range or start <= r <= end.
C5_FilterCorrect ==
    \A k \in 1..Len(log) :
        log[k].passed <=> InRange(fetched[log[k].pos].StarRating)

\* a run with a range in which one review passed and one was rejected
C5_Witness ==
    /\ ~ratingRange.isNil
    /\ \E a, b \in 1..Len(log) : log[a].passed /\ ~log[b].passed

(* C6 *)

\* C6: for a fetched review the range excludes, sendToWebhook is not called
\* and the map keeps for its id what was loaded; when the run has finished the
\* state file holds for its id what was loaded, nothing if nothing was.
C6_RejectedInvisible ==
    \A k \in 1..Len(log) :
        ~InRange(fetched[log[k].pos].StarRating) =>
            /\ ~log[k].sent /\ log[k].posts = 0
            /\ (log[k].id \in DOMAIN existingReviews)
                   <=> (log[k].id \in DOMAIN loaded)
            /\ log[k].id \in DOMAIN loaded =>
                   existingReviews[log[k].id] = loaded[log[k].id]
            /\ Finished => PersistedAsLoaded(log[k].id)

\* a finished run that delivered one review and rejected another whose id
\* was not stored and is not stored now
C6_Witness ==
    /\ Finished /\ newReviews # <<>>
    /\ \E k \in 1..Len(log) :
          /\ ~InRange(fetched[log[k].pos].StarRating)
          /\ ~(log[k].id \in DOMAIN loaded)
          /\ ~(log[k].id \in DOMAIN disk.rows)

(* C7 *)

\* C7: a fetched review that was loaded with notified = true is not sent and
\* keeps its stored record, in the map and in the file the run writes; a
\* fetched review that passed the filter and was not loaded, or was loaded
\* with notified = false, is sent.
C7_NotifiedSkipped ==
    \A k \in 1..Len(log) :
        /\ LoadedNotified(log[k].id) =>
              /\ ~log[k].sent /\ log[k].posts = 0
              /\ existingReviews[log[k].id] = loaded[log[k].id]
              /\ Finished => PersistedAsLoaded(log[k].id)
        /\ (~LoadedNotified(log[k].id)
              /\ InRange(fetched[log[k].pos].StarRating)) => log[k].sent

\* a finished run that fetched, with other fields, a review stored as
\* notified, and sent a review that was stored with notified = false
C7_Witness ==
    /\ Finished
    /\ \E k \in 1..Len(log) :
          /\ log[k].passed /\ LoadedNotified(log[k].id)
          /\ NewReview(fetched[log[k].pos]).Text # loaded[log[k].id].Text
          /\ NewReview(fetched[log[k].pos]).Rating # loaded[log[k].id].Rating
    /\ \E k \in 1..Len(log) :
          /\ log[k].sent
          /\ log[k].id \in DOMAIN loaded /\ ~loaded[log[k].id].Notified

(* C8 *)

\* C8 as stated: the run after a killed run, on the same fetched list,
\* delivers again at most one of the reviews the killed run delivered.
C8_AtMostOneRedelivered ==
    Repeats("killed") => Cardinality(Delivered(log) \cap prevDelivered) <= 1

\* C8, amended: when the process is killed before saveReviews, the state file
\* holds none of the notified updates of the run, however many deliveries it
\* made, and a run that repeats it on the same fetched list and range has,
\* when it finishes, called sendToWebhook again for every review the killed
\* run delivered.  When it is killed after saveReviews the file holds every
\* update of the run.  When it is killed inside saveReviews the file is
\* what the writer got to: a record of it that reads notified = true is of
\* a review the map holds as notified.
C8_KillLosesTheRun ==
    /\ (pc = "idle" /\ lastExit = "killed") =>
           \A id \in Delivered(log) :
               ~PersistedNotified(id) /\ PersistedAsLoaded(id)
    /\ (Repeats("killed") /\ Finished) => prevDelivered \subseteq Attempted(log)
    /\ (pc = "idle" /\ lastExit = "killed_saved") =>
           \A id \in Delivered(log) : PersistedNotified(id)
    /\ (pc = "idle" /\ lastExit = "killed_saving") =>
           \A id \in Ids :
               PersistedNotified(id) =>
                   (id \in DOMAIN existingReviews /\ existingReviews[id].Notified)

\* a run killed after two deliveries, then a run that delivered both again
C8_Witness ==
    /\ Repeats("killed") /\ Finished
    /\ Cardinality(prevDelivered) >= 2
    /\ prevDelivered \subseteq Delivered(log)

(* C9 *)

\* C9: every call of sendToWebhook that succeeds, runs in dry-run mode or
\* fails at the POST (transport error or status other than 200) sleeps the
\* pacing delay before it returns.
C9_PacingAfterEveryCall ==
    \A k \in 1..Len(log) : log[k].sent => log[k].slept = PacingSeconds

(* C10 *)

\* C10: in a run with testMode set, every call of sendToWebhook makes no POST,
\* sleeps the pacing delay and returns no error.
C10_DryRun ==
    testMode =>
        \A k \in 1..Len(log) :
            log[k].sent =>
                /\ log[k].posts = 0
                /\ log[k].slept = PacingSeconds
                /\ ~log[k].err

\* a finished dry run that sent two reviews, both recorded as delivered
C10_Witness ==
    /\ Finished /\ testMode
    /\ Cardinality(Attempted(log)) >= 2
    /\ Len(newReviews) = Cardinality(Attempted(log))

(* C11 *)

\* C11: when saveReviews returns an error and the run ends, the state file
\* is whole: it is the file saveReviews was to write, or it reads back as
\* what the run loaded from it.
C11_FailedSaveLeavesFileWhole ==
    (pc = "idle" /\ lastExit = "save_failed") =>
        \/ disk = saveReviews(allReviews(existingReviews))
        \/ /\ readExistingReviews(disk).result = "ok"
           /\ readExistingReviews(disk).reviews = loaded

(* C12 *)

\* C12: when saveReviews returns no error, the state file holds the header
\* and the record of every review it was given.
C12_SuccessMeansWritten ==
    Finished => disk = saveReviews(allReviews(existingReviews))

(* C13 *)

\* C13: a run does not crash at a fetched review without a comment payload:
\* it never ends in a panic with the loop standing at such a review.
C13_MalformedReviewSkipped ==
    ~(/\ pc = "idle" /\ lastExit = "panic"
      /\ readExistingReviews(disk).result = "ok"
      /\ idx <= Len(fetched)
      /\ fetched[idx].Comments = 0)

(* C14 *)

\* C14: when the fetch fails the run is over at once: sendToWebhook has not
\* been called, the run does not go on to saveReviews, and the state file,
\* which no step before saveReviews writes, is what the run loaded.
C14_FetchErrorFatal ==
    /\ [](lastExit = "fetch_failed" =>
             /\ pc = "idle"
             /\ log = <<>> /\ newReviews = <<>>
             /\ \A id \in Ids : PersistedAsLoaded(id))
    /\ [][pc # "save" => disk' = disk]_vars

\* a run that has loaded a review not yet notified and whose fetch failed
C14_Witness ==
    /\ pc = "idle" /\ lastExit = "fetch_failed"
    /\ \E id \in DOMAIN loaded : ~loaded[id].Notified

(* C15 *)

\* C15: a rating range parseRatingRange returns has 1 <= Start <= End <= 5,
\* and a run whose argument it rejects is over at once: nothing fetched,
\* nothing sent, and the step that starts the run leaves the state file as
\* it is.
C15_BadRangeAborts ==
    /\ [](ratingRange.isNil \/ (/\ 1 <= ratingRange.Start
                                /\ ratingRange.Start <= ratingRange.End
                                /\ ratingRange.End <= 5))
    /\ [](lastExit = "bad_range" =>
             /\ pc = "idle" /\ ratingRange.isNil
             /\ fetched = <<>> /\ log = <<>> /\ newReviews = <<>>)
    /\ [][runs' # runs => disk' = disk]_vars

\* a second run, on a state file with reviews, whose argument was rejected
C15_Witness ==
    /\ pc = "idle" /\ lastExit = "bad_range" /\ runs = 2
    /\ DOMAIN disk.rows # {}

(* C16 *)

\* C16: the loop leaves one entry per fetched review it has passed, in the
\* order of the fetch, so a review is handed to sendToWebhook at most once
\* in a run, and a call of sendToWebhook makes at most one POST: exactly one
\* in live mode, none in dry-run mode, whether it fails or not.
C16_NoRetry ==
    /\ Len(log) <= Len(fetched)
    /\ \A k \in 1..Len(log) :
          /\ log[k].pos = k
          /\ log[k].id = fetched[k].ReviewId
          /\ log[k].posts <= 1
          /\ ~log[k].sent => log[k].posts = 0
          /\ (log[k].sent /\ ~testMode) => log[k].posts = 1
    /\ \A j, k \in 1..Len(log) :
          (log[j].sent /\ log[k].sent /\ log[j].id = log[k].id) => j = k

\* a finished live run in which a delivery failed after its one POST
C16_Witness ==
    /\ Finished /\ ~testMode
    /\ \E k \in 1..Len(log) :
          log[k].sent /\ log[k].err /\ log[k].posts = 1

(* C17 *)

\* C17: a live call of sendToWebhook returns no error exactly when the POST
\* met no transport error and the status of the response is 200.
C17_SuccessIsExactly200 ==
    (call.made /\ ~call.mode) =>
        /\ call.res.posts = 1
        /\ (~call.res.err) <=> (~call.net.err /\ call.net.StatusCode = 200)

\* a live call answered with another 2xx status, which is a failure
C17_Witness ==
    /\ call.made /\ ~call.mode
    /\ ~call.net.err /\ call.net.StatusCode = 204
    /\ call.res.err

(* C18 *)

\* the loop entries of the deliveries that succeeded, in the order of the loop
Succeeded(e) == e.sent /\ ~e.err

\* C18: newReviews is, in the order of the fetch, the list of the candidates
\* whose delivery succeeded, each with notified = true, so its length is the
\* number of deliveries that succeeded; and when the run has finished each
\* of them is in the state file with notified = true.
C18_NewReviewsAreTheDelivered ==
    LET ok == SelectSeq(log, Succeeded) IN
    /\ \A k \in 1..Len(log) : log[k].pos = k
    /\ Len(newReviews) = Len(ok)
    /\ \A k \in 1..Len(ok) :
          newReviews[k] =
              [NewReview(fetched[ok[k].pos]) EXCEPT !.Notified = TRUE]
    /\ Finished =>
          \A k \in 1..Len(newReviews) :
              /\ PersistedNotified(newReviews[k].ReviewID)
              /\ disk.rows[newReviews[k].ReviewID] = FormatRecord(newReviews[k])

\* no stored review, one fetched review in the range, delivered by a live
\* run: one record in the state file and one review to report
C18_Witness ==
    /\ Finished /\ ~testMode
    /\ loaded = EmptyMap
    /\ Len(fetched) = 1 /\ ~ratingRange.isNil
    /\ Len(log) = 1 /\ log[1].sent /\ ~log[1].err /\ log[1].posts = 1
    /\ Len(newReviews) = 1
    /\ DOMAIN disk.rows = {fetched[1].ReviewId}
    /\ PersistedNotified(fetched[1].ReviewId)

(* C19 *)

\* C19: in runs that start with no stored review, every record of the state
\* file and of the map has notified = true, and a record a finished run
\* leaves is one it loaded or one it delivered: a review whose delivery
\* failed in every run has no record.
C19_OnlyNotifiedRecords ==
    /\ \A id \in DOMAIN disk.rows : PersistedNotified(id)
    /\ \A id \in DOMAIN existingReviews : existingReviews[id].Notified
    /\ Finished =>
          \A id \in DOMAIN disk.rows :
              id \in DOMAIN loaded \/ id \in Delivered(log)
    /\ Finished =>
          \A id \in Attempted(log) \ Delivered(log) :
              ~(id \in DOMAIN disk.rows)

\* a finished second run in which one delivery failed and one succeeded
C19_Witness ==
    /\ Finished /\ runs = 2
    /\ Attempted(log) \ Delivered(log) # {}
    /\ Delivered(log) # {}
    /\ DOMAIN disk.rows # {}

(* C20 *)

\* C20: a finished dry run leaves every review it handed to sendToWebhook
\* in the state file with notified = true, and the live run that follows it
\* on the same fetched list hands none of them to sendToWebhook.
C20_DryRunMarksNotified ==
    /\ (Finished /\ testMode) =>
          \A k \in 1..Len(log) :
              log[k].sent => (log[k].posts = 0 /\ PersistedNotified(log[k].id))
    /\ (Repeats("ok") /\ ~testMode) =>
          \A k \in 1..Len(log) :
              log[k].id \in prevDelivered => ~log[k].sent

\* a finished live run after a dry run: the reviews of the dry run passed
\* the filter again and were not sent
C20_Witness ==
    /\ Finished /\ rerun /\ runs = 2 /\ ~testMode
    /\ prevDelivered # {}
    /\ \A id \in prevDelivered :
          /\ PersistedNotified(id)
          /\ \E k \in 1..Len(log) :
                log[k].id = id /\ log[k].passed /\ ~log[k].sent

====
